---- MODULE Spec2Model ----
(***************************************************************************)
(* A model of the Gandalf API client (package gandalf).                    *)
(*                                                                         *)
(* The client is a set of thin wrappers around one request helper:         *)
(*   formatBody -> doRequest -> status check -> optional JSON decoding.    *)
(* One call is modelled in two steps: the operation is invoked and its     *)
(* request is handed to the transport (pc = "inflight"), then the          *)
(* transport answers (a response, a transport failure, or the caller's     *)
(* context being cancelled) and the operation returns (pc = "done").       *)
(* Texts (paths, bodies, error messages) are TLA+ strings and are built    *)
(* character by character the way the code and its library calls do.       *)
(***************************************************************************)
EXTENDS Integers, Sequences, FiniteSets, TLC

VARIABLES
    Endpoint,   \* Client.Endpoint, the configured base URL
    pc,         \* "idle" | "inflight" | "done"
    call,       \* the operation invoked and its arguments
    request,    \* the request handed to the transport by this call
    outcome,    \* what the transport gave back for that request
    ret,        \* what the operation returned to its caller
    nreq        \* number of requests this call handed to the transport

vars == <<Endpoint, pc, call, request, outcome, ret, nreq>>

----------------------------------------------------------------------------
(* Bounds of the model *)

\* longest list of users / repositories a caller passes
MaxList == 2
\* largest "total" a caller passes to GetLog
MaxTotal == 2
\* number of goroutines calling one Client at the same time
NumCallers == 2

----------------------------------------------------------------------------
(* Program constants *)

StatusOK == 200
GetFailureCode == 500
HealthCheckFailureCode == 500

----------------------------------------------------------------------------
(* Text helpers *)

CharAt(s, i) == SubSeq(s, i, i)

HasChar(s, c) == \E i \in 1..Len(s) : CharAt(s, i) = c

HasPrefix(s, p) == Len(s) >= Len(p) /\ SubSeq(s, 1, Len(p)) = p

\* TrimRight cutting off one trailing character at most
TrimRightOnce(s, c) ==
    IF Len(s) > 0 /\ CharAt(s, Len(s)) = c THEN SubSeq(s, 1, Len(s) - 1) ELSE s

RECURSIVE TrimRight(_, _)
\* strings.TrimRight(s, c) for a one-character cutset c
TrimRight(s, c) ==
    IF Len(s) > 0 /\ CharAt(s, Len(s)) = c
    THEN TrimRight(SubSeq(s, 1, Len(s) - 1), c)
    ELSE s

Digit(d) == CharAt("0123456789", d + 1)

RECURSIVE ItoaNat(_)
ItoaNat(n) == IF n < 10 THEN Digit(n) ELSE ItoaNat(n \div 10) \o Digit(n % 10)

\* strconv.Itoa
Itoa(n) == IF n < 0 THEN "-" \o ItoaNat(0 - n) ELSE ItoaNat(n)

----------------------------------------------------------------------------
(* Go values *)

\* a []string: nil, or a (possibly empty) list
NilSlice == [isNil |-> TRUE, elems |-> <<>>]
Slice(s) == [isNil |-> FALSE, elems |-> s]

\* a map[string]string: nil, or a (possibly empty) map
NilMap == [isNil |-> TRUE, m |-> <<>>]
Map(f) == [isNil |-> FALSE, m |-> f]

\* the values handed to the helpers as interface{} bodies
NilValue == [kind |-> "nil"]
StringValue(s) == [kind |-> "string", str |-> s]
repository(name, users, isPublic, sshURL, gitURL) ==
    [kind |-> "repository", Name |-> name, Users |-> users,
     IsPublic |-> isPublic, SSHURL |-> sshURL, GitURL |-> gitURL]
user(name, keys) == [kind |-> "user", Name |-> name, Keys |-> keys]
KeysValue(keys) == [kind |-> "keys", Keys |-> keys]
AccessValue(rNames, uNames) ==
    [kind |-> "access", repositories |-> rNames, users |-> uNames]
\* a value whose MarshalJSON fails (the tests' unmarshable{})
Unmarshable == [kind |-> "unmarshable"]

\* an io.Reader / *bytes.Buffer: nil, or a reader over a text
NilReader == [isNil |-> TRUE, text |-> ""]
Reader(t) == [isNil |-> FALSE, text |-> t]

----------------------------------------------------------------------------
(* Errors *)

NoError == [type |-> "nil", code |-> 0, text |-> ""]
\* &HTTPError{Code: code, Reason: reason}
HTTPError(code, reason) == [type |-> "HTTPError", code |-> code, text |-> reason]
\* errors.New(text), fmt.Errorf(...)
ErrorString(t) == [type |-> "errorString", code |-> 0, text |-> t]
\* *json.MarshalerError wrapping the error of MarshalJSON
MarshalerError(t) == [type |-> "MarshalerError", code |-> 0, text |-> t]
\* an error of json.Unmarshal
DecodeError(t) == [type |-> "jsonDecodeError", code |-> 0, text |-> t]
\* an error of reading the response body
ReadError == [type |-> "readError", code |-> 0, text |-> "unexpected EOF"]

\* err.Error()
Error(e) ==
    IF e.type = "MarshalerError"
    THEN "json: error calling MarshalJSON for type gandalf.unmarshable: " \o e.text
    ELSE e.text

----------------------------------------------------------------------------
(* encoding/json, as json.Marshal encodes the values above *)

jsonEscape(c) ==
    CASE c = "\"" -> "\\\""
      [] c = "\\" -> "\\\\"
      [] c = "\n" -> "\\n"
      [] c = "<"  -> "\\u003c"
      [] c = ">"  -> "\\u003e"
      [] c = "&"  -> "\\u0026"
      [] OTHER    -> c

RECURSIVE jsonEscapeFrom(_, _)
jsonEscapeFrom(s, i) ==
    IF i > Len(s) THEN "" ELSE jsonEscape(CharAt(s, i)) \o jsonEscapeFrom(s, i + 1)

jsonString(s) == "\"" \o jsonEscapeFrom(s, 1) \o "\""

RECURSIVE jsonElemsReversed(_, _)
\* jsonElems writing the elements from the last one to the first
jsonElemsReversed(elems, i) ==
    IF i > Len(elems) THEN ""
    ELSE (IF i > 1 THEN "," ELSE "") \o jsonString(elems[Len(elems) + 1 - i])
         \o jsonElemsReversed(elems, i + 1)

RECURSIVE jsonElems(_, _)
jsonElems(elems, i) ==
    IF i > Len(elems) THEN ""
    ELSE (IF i > 1 THEN "," ELSE "") \o jsonString(elems[i]) \o jsonElems(elems, i + 1)

\* a []string: null when nil, else an array in the order of the slice
jsonStrings(sl) == IF sl.isNil THEN "null" ELSE "[" \o jsonElems(sl.elems, 1) \o "]"

\* the keys a caller uses in a map[string]string, in ascending byte order
\* (json.Marshal writes the entries of a map sorted by key)
MapKeys == <<"fookey", "test", "testkey">>

RECURSIVE jsonEntries(_, _, _)
jsonEntries(m, i, first) ==
    IF i > Len(MapKeys) THEN ""
    ELSE IF MapKeys[i] \in DOMAIN m
         THEN (IF first THEN "" ELSE ",")
              \o jsonString(MapKeys[i]) \o ":" \o jsonString(m[MapKeys[i]])
              \o jsonEntries(m, i + 1, FALSE)
         ELSE jsonEntries(m, i + 1, first)

jsonMap(mp) == IF mp.isNil THEN "null" ELSE "{" \o jsonEntries(mp.m, 1, TRUE) \o "}"

jsonBool(b) == IF b THEN "true" ELSE "false"

\* Marshal writing ssh_url and git_url also when they are empty
MarshalWithoutOmitEmpty(b) ==
    CASE b.kind = "repository" ->
            [err |-> NoError,
             text |-> "{\"name\":" \o jsonString(b.Name)
                      \o ",\"users\":" \o jsonStrings(b.Users)
                      \o ",\"ispublic\":" \o jsonBool(b.IsPublic)
                      \o ",\"ssh_url\":" \o jsonString(b.SSHURL)
                      \o ",\"git_url\":" \o jsonString(b.GitURL)
                      \o "}"]
      [] b.kind = "user" ->
            [err |-> NoError,
             text |-> "{\"name\":" \o jsonString(b.Name)
                      \o ",\"keys\":" \o jsonMap(b.Keys) \o "}"]
      [] b.kind = "unmarshable" ->
            [err |-> MarshalerError("Unmarshable."), text |-> ""]
      [] b.kind = "keys" -> [err |-> NoError, text |-> jsonMap(b.Keys)]
      [] b.kind = "access" ->
            [err |-> NoError,
             text |-> "{\"repositories\":" \o jsonStrings(b.repositories)
                      \o ",\"users\":" \o jsonStrings(b.users) \o "}"]
      [] b.kind = "string" -> [err |-> NoError, text |-> jsonString(b.str)]
      [] OTHER -> [err |-> NoError, text |-> "null"]

\* json.Marshal(&b): [err, text]
Marshal(b) ==
    CASE b.kind = "nil" -> [err |-> NoError, text |-> "null"]
      [] b.kind = "string" -> [err |-> NoError, text |-> jsonString(b.str)]
      [] b.kind = "repository" ->
            [err |-> NoError,
             text |-> "{\"name\":" \o jsonString(b.Name)
                      \o ",\"users\":" \o jsonStrings(b.Users)
                      \o ",\"ispublic\":" \o jsonBool(b.IsPublic)
                      \o (IF b.SSHURL = "" THEN ""
                          ELSE ",\"ssh_url\":" \o jsonString(b.SSHURL))
                      \o (IF b.GitURL = "" THEN ""
                          ELSE ",\"git_url\":" \o jsonString(b.GitURL))
                      \o "}"]
      [] b.kind = "user" ->
            [err |-> NoError,
             text |-> "{\"name\":" \o jsonString(b.Name)
                      \o ",\"keys\":" \o jsonMap(b.Keys) \o "}"]
      [] b.kind = "keys" -> [err |-> NoError, text |-> jsonMap(b.Keys)]
      [] b.kind = "access" ->
            [err |-> NoError,
             text |-> "{\"repositories\":" \o jsonStrings(b.repositories)
                      \o ",\"users\":" \o jsonStrings(b.users) \o "}"]
      [] b.kind = "unmarshable" ->
            [err |-> MarshalerError("Unmarshable."), text |-> ""]

----------------------------------------------------------------------------
(* Body Formatter *)

\* formatBody without the string case: every non-nil value is JSON-encoded
formatBodyQuotingStrings(b) ==
    IF b.kind # "nil"
    THEN LET j == Marshal(b)
         IN  IF j.err # NoError
             THEN [buf |-> NilReader, err |-> j.err]
             ELSE [buf |-> Reader(j.text), err |-> NoError]
    ELSE [buf |-> Reader("null"), err |-> NoError]

\* Client.formatBody: [buf, err]
formatBody(b) ==
    IF b.kind = "string"
    THEN [buf |-> Reader(b.str), err |-> NoError]
    ELSE IF b.kind # "nil"
         THEN LET j == Marshal(b)
              IN  IF j.err # NoError
                  THEN [buf |-> NilReader, err |-> j.err]
                  ELSE [buf |-> Reader(j.text), err |-> NoError]
         ELSE [buf |-> Reader("null"), err |-> NoError]

----------------------------------------------------------------------------
(* The transport: what client.Do gives back for a request *)

NoOutcome == [kind |-> "none", status |-> 0, body |-> "", readErr |-> FALSE, cause |-> ""]
\* a response was received; body is what reading the response body yields,
\* readErr tells whether that read ended in an error
ResponseOutcome(status, body, readErr) ==
    [kind |-> "response", status |-> status, body |-> body, readErr |-> readErr, cause |-> ""]
\* client.Do returned an error and no response
FailureOutcome(cause) ==
    [kind |-> "failure", status |-> 0, body |-> "", readErr |-> FALSE, cause |-> cause]

ConnectionRefused == "dial tcp: connection refused"
ContextCanceled == "context canceled"

NilResponse == [isNil |-> TRUE, StatusCode |-> 0, Body |-> "", readErr |-> FALSE]
NoRequest == [sent |-> FALSE, method |-> "", url |-> "", ctx |-> "", hasBody |-> FALSE,
              body |-> "", contentType |-> "", close |-> FALSE]

\* http.NewRequest fails when the URL does not parse: here, a URL holding a
\* control character or one with no scheme before its first colon
NewRequestFails(url) == HasChar(url, "\n") \/ HasPrefix(url, ":")

\* the operation name of a *url.Error: the method with only its first letter upper case
urlErrorOp(method) ==
    CASE method = "GET" -> "Get"
      [] method = "POST" -> "Post"
      [] method = "PUT" -> "Put"
      [] method = "DELETE" -> "Delete"

\* the message of the *url.Error client.Do returns
urlError(method, url, cause) == urlErrorOp(method) \o " \"" \o url \o "\": " \o cause

----------------------------------------------------------------------------
(* Request Executor *)

\* doRequest setting the JSON content type on every request
doRequestAlwaysJSON(endpoint, ctx, method, path, body, o) ==
    LET url == TrimRight(endpoint, "/") \o path
        req == [sent |-> TRUE, method |-> method, url |-> url, ctx |-> ctx,
                hasBody |-> ~body.isNil, body |-> body.text,
                contentType |-> "application/json", close |-> TRUE]
    IN  IF NewRequestFails(url)
        THEN [request |-> NoRequest, response |-> NilResponse,
              err |-> ErrorString("invalid Gandalf endpoint")]
        ELSE IF o.kind = "response"
             THEN [request |-> req,
                   response |-> [isNil |-> FALSE, StatusCode |-> o.status,
                                 Body |-> o.body, readErr |-> o.readErr],
                   err |-> NoError]
             ELSE [request |-> req, response |-> NilResponse,
                   err |-> ErrorString("Failed to connect to Gandalf server ("
                                       \o endpoint \o ") - "
                                       \o urlError(method, url, o.cause))]

\* doRequest leaving the request with the background context
doRequestWithoutContext(endpoint, ctx, method, path, body, o) ==
    LET url == TrimRight(endpoint, "/") \o path
        req == [sent |-> TRUE, method |-> method, url |-> url, ctx |-> "background",
                hasBody |-> ~body.isNil, body |-> body.text,
                contentType |-> IF ~body.isNil THEN "application/json" ELSE "",
                close |-> TRUE]
    IN  IF NewRequestFails(url)
        THEN [request |-> NoRequest, response |-> NilResponse,
              err |-> ErrorString("invalid Gandalf endpoint")]
        ELSE IF o.kind = "response"
             THEN [request |-> req,
                   response |-> [isNil |-> FALSE, StatusCode |-> o.status,
                                 Body |-> o.body, readErr |-> o.readErr],
                   err |-> NoError]
             ELSE [request |-> req, response |-> NilResponse,
                   err |-> ErrorString("Failed to connect to Gandalf server ("
                                       \o endpoint \o ") - "
                                       \o urlError(method, url, o.cause))]

\* Client.doRequest: [request, response, err]; o is the transport's answer
doRequest(endpoint, ctx, method, path, body, o) ==
    LET url == TrimRight(endpoint, "/") \o path
        req == [sent |-> TRUE, method |-> method, url |-> url, ctx |-> ctx,
                hasBody |-> ~body.isNil, body |-> body.text,
                contentType |-> IF ~body.isNil THEN "application/json" ELSE "",
                close |-> TRUE]
    IN  IF NewRequestFails(url)
        THEN [request |-> NoRequest, response |-> NilResponse,
              err |-> ErrorString("invalid Gandalf endpoint")]
        ELSE IF o.kind = "response"
             THEN [request |-> req,
                   response |-> [isNil |-> FALSE, StatusCode |-> o.status,
                                 Body |-> o.body, readErr |-> o.readErr],
                   err |-> NoError]
             ELSE [request |-> req, response |-> NilResponse,
                   err |-> ErrorString("Failed to connect to Gandalf server ("
                                       \o endpoint \o ") - "
                                       \o urlError(method, url, o.cause))]

----------------------------------------------------------------------------
(* Verb helpers.  Each gives [request, err, value, panicked]. *)

NoValue == [kind |-> "none"]
\* a []byte
Bytes(t) == [kind |-> "bytes", text |-> t]

Returned(req, err, value) ==
    [request |-> req, err |-> err, value |-> value, panicked |-> FALSE]
\* a nil pointer dereference: the call does not return
Panicked(req) ==
    [request |-> req, err |-> NoError, value |-> NoValue, panicked |-> TRUE]

\* CheckStatus taking every 2xx status for a success
CheckStatusAny2xx(r) ==
    IF r.err # NoError
    THEN Returned(r.request, r.err, NoValue)
    ELSE IF r.response.StatusCode < StatusOK \/ r.response.StatusCode >= 300
         THEN Returned(r.request, HTTPError(r.response.StatusCode, r.response.Body), NoValue)
         ELSE Returned(r.request, NoError, NoValue)

\* what post, put and delete do with the answer of doRequest
CheckStatus(r) ==
    IF r.err # NoError
    THEN Returned(r.request, r.err, NoValue)
    ELSE IF r.response.StatusCode # StatusOK
         THEN Returned(r.request, HTTPError(r.response.StatusCode, r.response.Body), NoValue)
         ELSE Returned(r.request, NoError, NoValue)

\* post issuing its request before it looks at the error of formatBody
postConnectingFirst(endpoint, ctx, b, path, o) ==
    LET f == formatBody(b)
        r == doRequest(endpoint, ctx, "POST", path, f.buf, o)
    IN  IF r.err # NoError
        THEN Returned(r.request, r.err, NoValue)
        ELSE IF f.err # NoError
             THEN Returned(r.request, f.err, NoValue)
             ELSE CheckStatus(r)

\* Client.post
post(endpoint, ctx, b, path, o) ==
    LET f == formatBody(b)
    IN  IF f.err # NoError
        THEN Returned(NoRequest, f.err, NoValue)
        ELSE CheckStatus(doRequest(endpoint, ctx, "POST", path, f.buf, o))

\* put issuing its request with the method POST
putAsPost(endpoint, ctx, b, path, o) ==
    CheckStatus(doRequest(endpoint, ctx, "POST", path, Reader(b), o))

\* Client.put: the body is the given text, read through strings.NewReader
put(endpoint, ctx, b, path, o) ==
    CheckStatus(doRequest(endpoint, ctx, "PUT", path, Reader(b), o))

\* delete sending no body at all
deleteWithoutBody(endpoint, ctx, b, path, o) ==
    CheckStatus(doRequest(endpoint, ctx, "DELETE", path, NilReader, o))

\* Client.delete
delete(endpoint, ctx, b, path, o) ==
    LET f == formatBody(b)
    IN  IF f.err # NoError
        THEN Returned(NoRequest, f.err, NoValue)
        ELSE CheckStatus(doRequest(endpoint, ctx, "DELETE", path, f.buf, o))

\* get reporting every failure with its fixed code, the response's status lost
getWithFixedCode(endpoint, ctx, path, o) ==
    LET r == doRequest(endpoint, ctx, "GET", path, NilReader, o)
    IN  IF r.err # NoError
        THEN Returned(r.request, HTTPError(GetFailureCode, Error(r.err)), Bytes(""))
        ELSE IF r.response.StatusCode # StatusOK
             THEN Returned(r.request,
                           HTTPError(GetFailureCode, r.response.Body), Bytes(""))
             ELSE Returned(r.request,
                           IF r.response.readErr THEN ReadError ELSE NoError,
                           Bytes(r.response.Body))

\* Client.get
get(endpoint, ctx, path, o) ==
    LET r == doRequest(endpoint, ctx, "GET", path, NilReader, o)
    IN  IF r.err # NoError
        THEN Returned(r.request, HTTPError(GetFailureCode, Error(r.err)), Bytes(""))
        ELSE IF r.response.StatusCode # StatusOK
             THEN Returned(r.request,
                           HTTPError(r.response.StatusCode, r.response.Body), Bytes(""))
             ELSE Returned(r.request,
                           IF r.response.readErr THEN ReadError ELSE NoError,
                           Bytes(r.response.Body))

----------------------------------------------------------------------------
(* The helpers of the earlier client (client.go), which has no context, no
   endpoint trimming and whose get inspects the response before the error *)

\* Client.doRequest of client.go
doRequest_client_go(endpoint, method, path, body, o) ==
    LET url == endpoint \o path
        req == [sent |-> TRUE, method |-> method, url |-> url, ctx |-> "",
                hasBody |-> ~body.isNil, body |-> body.text,
                contentType |-> IF ~body.isNil THEN "application/json" ELSE "",
                close |-> FALSE]
    IN  IF NewRequestFails(url)
        THEN [request |-> NoRequest, response |-> NilResponse,
              err |-> ErrorString("parse \"" \o url \o "\": invalid URL")]
        ELSE IF o.kind = "response"
             THEN [request |-> req,
                   response |-> [isNil |-> FALSE, StatusCode |-> o.status,
                                 Body |-> o.body, readErr |-> o.readErr],
                   err |-> NoError]
             ELSE [request |-> req, response |-> NilResponse,
                   err |-> ErrorString("Failed to connect to Gandalf server, it's probably down.")]

\* Client.get of client.go: response.StatusCode is read before err is looked at
get_client_go(endpoint, path, o) ==
    LET r == doRequest_client_go(endpoint, "GET", path, NilReader, o)
    IN  IF r.response.isNil
        THEN Panicked(r.request)
        ELSE IF r.response.StatusCode # StatusOK
             THEN Returned(r.request,
                           HTTPError(r.response.StatusCode, r.response.Body), NoValue)
             ELSE Returned(r.request, r.err, NoValue)

----------------------------------------------------------------------------
(* encoding/json, as json.Unmarshal decodes the response bodies of the model *)

RepoBody ==
    "{\"name\":\"repo-name\",\"git_url\":\"git@test.com:repo-name.git\",\"ssh_url\":\"git://test.com/repo-name.git\"}"
KeysBody == "{\"fookey\":\"bar keycontent\"}"
\* a well-formed document whose "users" and "ispublic" have unexpected types
MixedBody == "{\"name\":\"repo-name\",\"users\":\"someuser\",\"ispublic\":\"yes\",\"next\":true}"
LogBody == "{\"commits\":[],\"next\":\"1267b5de5943632e47cb6f8bf5b2147bc0be5cf123\"}"
\* a well-formed document whose "commits" is no array
PartialLogBody == "{\"commits\":{},\"next\":\"1267b5de\"}"
ErrorBody == "Error performing requested operation\n"

Field(key, type, str) == [key |-> key, type |-> type, str |-> str]

JSONObject(fields) == [valid |-> TRUE, isNull |-> FALSE, fields |-> fields, msg |-> ""]
JSONNull == [valid |-> TRUE, isNull |-> TRUE, fields |-> <<>>, msg |-> ""]
JSONInvalid(msg) == [valid |-> FALSE, isNull |-> FALSE, fields |-> <<>>, msg |-> msg]

\* the syntax check and scan of json.Unmarshal on the documents of the model
ParseJSON(text) ==
    CASE text = RepoBody ->
            JSONObject(<<Field("name", "string", "repo-name"),
                         Field("git_url", "string", "git@test.com:repo-name.git"),
                         Field("ssh_url", "string", "git://test.com/repo-name.git")>>)
      [] text = KeysBody ->
            JSONObject(<<Field("fookey", "string", "bar keycontent")>>)
      [] text = MixedBody ->
            JSONObject(<<Field("name", "string", "repo-name"),
                         Field("users", "string", "someuser"),
                         Field("ispublic", "string", "yes"),
                         Field("next", "bool", "true")>>)
      [] text = LogBody ->
            JSONObject(<<Field("commits", "array", ""),
                         Field("next", "string", "1267b5de5943632e47cb6f8bf5b2147bc0be5cf123")>>)
      [] text = PartialLogBody ->
            JSONObject(<<Field("commits", "object", ""),
                         Field("next", "string", "1267b5de")>>)
      [] text = "null" -> JSONNull
      [] text = "" -> JSONInvalid("unexpected end of JSON input")
      [] OTHER -> JSONInvalid("invalid character '" \o CharAt(text, 1)
                              \o "' looking for beginning of value")

TypeError(type, where) ==
    DecodeError("json: cannot unmarshal " \o type \o " into Go " \o where)

StoreRepository(r, f) ==
    CASE f.key = "name" ->
            IF f.type = "string" THEN [val |-> [r EXCEPT !.Name = f.str], err |-> NoError]
            ELSE [val |-> r, err |-> TypeError(f.type, "struct field repository.name of type string")]
      [] f.key = "users" ->
            IF f.type = "array" THEN [val |-> [r EXCEPT !.Users = Slice(<<>>)], err |-> NoError]
            ELSE [val |-> r, err |-> TypeError(f.type, "struct field repository.users of type []string")]
      [] f.key = "ispublic" ->
            IF f.type = "bool" THEN [val |-> [r EXCEPT !.IsPublic = (f.str = "true")], err |-> NoError]
            ELSE [val |-> r, err |-> TypeError(f.type, "struct field repository.ispublic of type bool")]
      [] f.key = "ssh_url" ->
            IF f.type = "string" THEN [val |-> [r EXCEPT !.SSHURL = f.str], err |-> NoError]
            ELSE [val |-> r, err |-> TypeError(f.type, "struct field repository.ssh_url of type string")]
      [] f.key = "git_url" ->
            IF f.type = "string" THEN [val |-> [r EXCEPT !.GitURL = f.str], err |-> NoError]
            ELSE [val |-> r, err |-> TypeError(f.type, "struct field repository.git_url of type string")]
      [] OTHER -> [val |-> r, err |-> NoError]

\* an entry of a map[string]string: a value of another type leaves "" under its key
StoreKey(keys, f) ==
    IF f.type = "string"
    THEN [val |-> Map((f.key :> f.str) @@ keys.m), err |-> NoError]
    ELSE [val |-> Map((f.key :> "") @@ keys.m),
          err |-> TypeError(f.type, "value of type string")]

\* a Log: Commits (here only their number matters) and Next
Log(commits, next) == [kind |-> "Log", Commits |-> commits, Next |-> next]
ZeroLog == Log(NilSlice, "")

StoreLog(l, f) ==
    CASE f.key = "commits" ->
            IF f.type = "array" THEN [val |-> [l EXCEPT !.Commits = Slice(<<>>)], err |-> NoError]
            ELSE [val |-> l, err |-> TypeError(f.type, "struct field Log.Commits of type []gandalf.Commit")]
      [] f.key = "next" ->
            IF f.type = "string" THEN [val |-> [l EXCEPT !.Next = f.str], err |-> NoError]
            ELSE [val |-> l, err |-> TypeError(f.type, "struct field Log.Next of type string")]
      [] OTHER -> [val |-> l, err |-> NoError]

\* storing one member of a JSON object into the value being decoded
Store(v, f) ==
    CASE v.kind = "repository" -> StoreRepository(v, f)
      [] v.kind = "keys" ->
            LET k == StoreKey(v.Keys, f) IN [val |-> KeysValue(k.val), err |-> k.err]
      [] v.kind = "Log" -> StoreLog(v, f)

RECURSIVE DecodeObject(_, _, _)
\* the members are stored one after the other; a value of the wrong type is
\* skipped, the first such error is kept and decoding goes on
DecodeObject(fields, i, acc) ==
    IF i > Len(fields) THEN acc
    ELSE LET st == Store(acc.val, fields[i])
         IN  DecodeObject(fields, i + 1,
                          [val |-> st.val,
                           err |-> IF acc.err # NoError THEN acc.err ELSE st.err])

\* json.Unmarshal(text, &target): [val, err]
Unmarshal(text, target) ==
    LET d == ParseJSON(text)
    IN  IF ~d.valid THEN [val |-> target, err |-> DecodeError(d.msg)]
        ELSE IF d.isNull THEN [val |-> target, err |-> NoError]
        ELSE DecodeObject(d.fields, 1, [val |-> target, err |-> NoError])

----------------------------------------------------------------------------
(* Public operations.  Each gives [request, err, value, panicked]. *)

ZeroRepository == repository("", NilSlice, FALSE, "", "")
ZeroUser == user("", NilMap)
MapValue(mp) == [kind |-> "map", map |-> mp]
Text(t) == [kind |-> "text", str |-> t]

NewRepository(endpoint, ctx, name, users, isPublic, o) ==
    LET r == repository(name, users, isPublic, "", "")
        p == post(endpoint, ctx, r, "/repository", o)
    IN  IF p.err # NoError
        THEN Returned(p.request, p.err, ZeroRepository)
        ELSE Returned(p.request, NoError, r)

\* GetRepository wrapping the error of get the way GetDiff does
GetRepositoryWrapping(endpoint, ctx, name, o) ==
    LET url == "/repository/" \o name \o "?:name=" \o name
        g == get(endpoint, ctx, url, o)
        d == Unmarshal(g.value.text, ZeroRepository)
    IN  IF g.err # NoError
        THEN Returned(g.request,
                      ErrorString("Caught error getting repository metadata: " \o Error(g.err)),
                      ZeroRepository)
        ELSE IF d.err # NoError
             THEN Returned(g.request,
                           ErrorString("Caught error decoding returned json: " \o Error(d.err)),
                           ZeroRepository)
             ELSE Returned(g.request, NoError, d.val)

GetRepository(endpoint, ctx, name, o) ==
    LET url == "/repository/" \o name \o "?:name=" \o name
        g == get(endpoint, ctx, url, o)
        d == Unmarshal(g.value.text, ZeroRepository)
    IN  IF g.err # NoError
        THEN Returned(g.request, g.err, ZeroRepository)
        ELSE IF d.err # NoError
             THEN Returned(g.request,
                           ErrorString("Caught error decoding returned json: " \o Error(d.err)),
                           ZeroRepository)
             ELSE Returned(g.request, NoError, d.val)

NewUser(endpoint, ctx, name, keys, o) ==
    LET u == user(name, keys)
        p == post(endpoint, ctx, u, "/user", o)
    IN  IF p.err # NoError
        THEN Returned(p.request, p.err, ZeroUser)
        ELSE Returned(p.request, NoError, u)

RemoveUser(endpoint, ctx, name, o) ==
    delete(endpoint, ctx, NilValue, "/user/" \o name, o)

RemoveRepository(endpoint, ctx, name, o) ==
    delete(endpoint, ctx, NilValue, "/repository/" \o name, o)

GrantAccess(endpoint, ctx, rNames, uNames, o) ==
    post(endpoint, ctx, AccessValue(rNames, uNames), "/repository/grant", o)

RevokeAccess(endpoint, ctx, rNames, uNames, o) ==
    delete(endpoint, ctx, AccessValue(rNames, uNames), "/repository/revoke", o)

AddKey(endpoint, ctx, uName, key, o) ==
    post(endpoint, ctx, KeysValue(key), "/user/" \o uName \o "/key", o)

UpdateKey(endpoint, ctx, uName, kName, kBody, o) ==
    put(endpoint, ctx, kBody, "/user/" \o uName \o "/key/" \o kName, o)

RemoveKey(endpoint, ctx, uName, kName, o) ==
    delete(endpoint, ctx, NilValue, "/user/" \o uName \o "/key/" \o kName, o)

ListKeys(endpoint, ctx, uName, o) ==
    LET url == "/user/" \o uName \o "/keys"
        g == get(endpoint, ctx, url, o)
        d == Unmarshal(g.value.text, KeysValue(Map(<<>>)))
    IN  IF g.err # NoError
        THEN Returned(g.request, g.err, MapValue(NilMap))
        ELSE Returned(g.request, d.err, MapValue(d.val.Keys))

GetDiff(endpoint, ctx, repo, previousCommit, lastCommit, o) ==
    LET url == "/repository/" \o repo \o "/diff/commits?:name=" \o repo
               \o "&previous_commit=" \o previousCommit
               \o "&last_commit=" \o lastCommit
        g == get(endpoint, ctx, url, o)
    IN  IF g.err # NoError
        THEN Returned(g.request,
                      ErrorString("Caught error getting repository metadata: " \o Error(g.err)),
                      Text(""))
        ELSE Returned(g.request, NoError, Text(g.value.text))

\* url.QueryEscape on one character
queryEscape(c) ==
    CASE c = " " -> "+"
      [] c = "/" -> "%2F"
      [] c = "&" -> "%26"
      [] c = "=" -> "%3D"
      [] c = "?" -> "%3F"
      [] c = "\n" -> "%0A"
      [] OTHER -> c

RECURSIVE QueryEscapeFrom(_, _)
QueryEscapeFrom(s, i) ==
    IF i > Len(s) THEN "" ELSE queryEscape(CharAt(s, i)) \o QueryEscapeFrom(s, i + 1)

\* url.QueryEscape
QueryEscape(s) == QueryEscapeFrom(s, 1)

\* the parameters GetLog may set, in ascending order: url.Values.Encode
\* writes the parameters sorted by key
QueryKeys == <<"path", "ref", "total">>

\* Encode writing the parameters in the order GetLog sets them
EncodeInSettingOrder(v) ==
    "ref=" \o QueryEscape(v["ref"])
    \o (IF "path" \in DOMAIN v
        THEN "&path=" \o QueryEscape(v["path"]) ELSE "")
    \o (IF "total" \in DOMAIN v
        THEN "&total=" \o QueryEscape(v["total"]) ELSE "")

RECURSIVE EncodeFrom(_, _, _)
EncodeFrom(v, i, first) ==
    IF i > Len(QueryKeys) THEN ""
    ELSE IF QueryKeys[i] \in DOMAIN v
         THEN (IF first THEN "" ELSE "&")
              \o QueryKeys[i] \o "=" \o QueryEscape(v[QueryKeys[i]])
              \o EncodeFrom(v, i + 1, FALSE)
         ELSE EncodeFrom(v, i + 1, first)

\* url.Values.Encode
Encode(v) == EncodeFrom(v, 1, TRUE)

\* LogValues sending the total whenever it is not negative
LogValuesWithAnyTotal(ref, path, total) ==
    LET v1 == ("ref" :> ref)
        v2 == IF path # "" THEN ("path" :> path) @@ v1 ELSE v1
    IN  IF total >= 0 THEN ("total" :> Itoa(total)) @@ v2 ELSE v2

\* the url.Values GetLog sets
LogValues(ref, path, total) ==
    LET v1 == ("ref" :> ref)
        v2 == IF path # "" THEN ("path" :> path) @@ v1 ELSE v1
    IN  IF total > 0 THEN ("total" :> Itoa(total)) @@ v2 ELSE v2

\* GetLog returning the error of get as it is
GetLogUnwrapped(endpoint, ctx, repo, ref, path, total, o) ==
    LET u == "/repository/" \o repo \o "/logs?" \o Encode(LogValues(ref, path, total))
        g == get(endpoint, ctx, u, o)
        d == Unmarshal(g.value.text, ZeroLog)
    IN  IF g.err # NoError
        THEN Returned(g.request, g.err, ZeroLog)
        ELSE Returned(g.request, d.err, d.val)

GetLog(endpoint, ctx, repo, ref, path, total, o) ==
    LET u == "/repository/" \o repo \o "/logs?" \o Encode(LogValues(ref, path, total))
        g == get(endpoint, ctx, u, o)
        d == Unmarshal(g.value.text, ZeroLog)
    IN  IF g.err # NoError
        THEN Returned(g.request,
                      ErrorString("Caught error getting repository log: " \o Error(g.err)),
                      ZeroLog)
        ELSE Returned(g.request, d.err, d.val)

\* GetHealthCheck handing over what get returned also next to an error
GetHealthCheckKeepingResult(endpoint, ctx, o) ==
    LET g == get(endpoint, ctx, "/healthcheck", o)
    IN  IF g.err # NoError
        THEN Returned(g.request, HTTPError(HealthCheckFailureCode, Error(g.err)), g.value)
        ELSE Returned(g.request, NoError, g.value)

GetHealthCheck(endpoint, ctx, o) ==
    LET g == get(endpoint, ctx, "/healthcheck", o)
    IN  IF g.err # NoError
        THEN Returned(g.request, HTTPError(HealthCheckFailureCode, Error(g.err)), Bytes(""))
        ELSE Returned(g.request, NoError, g.value)

----------------------------------------------------------------------------
(* GitTime and time.Parse, for the layouts GitTime.UnmarshalJSON tries.
   The names of days and months are given in the capitalisation of the
   layouts, which is the one the inputs of the model use. *)

GitTimeFormat == "Mon Jan _2 15:04:05 2006 -0700"
RFC3339 == "2006-01-02T15:04:05Z07:00"

\* a time.Time: a wall clock reading and the offset of its zone in minutes;
\* frac holds the digits of the fractional second
Time(year, month, day, hour, min, sec, frac, offset) ==
    [year |-> year, month |-> month, day |-> day, hour |-> hour, min |-> min,
     sec |-> sec, frac |-> frac, offset |-> offset]
\* time.Time{}
ZeroTime == Time(1, 1, 1, 0, 0, 0, "", 0)

\* a *time.ParseError; text holds its cause
ParseError(t) == [type |-> "ParseError", code |-> 0, text |-> t]

shortDayNames == <<"Sun", "Mon", "Tue", "Wed", "Thu", "Fri", "Sat">>
shortMonthNames == <<"Jan", "Feb", "Mar", "Apr", "May", "Jun",
                     "Jul", "Aug", "Sep", "Oct", "Nov", "Dec">>

\* s[n:]
Rest(s, n) == SubSeq(s, n + 1, Len(s))

isDigit(s, i) == Len(s) > i /\ \E d \in 0..9 : Digit(d) = CharAt(s, i + 1)
digitAt(s, i) == CHOOSE d \in 0..9 : Digit(d) = CharAt(s, i + 1)

RECURSIVE cutspace(_)
cutspace(s) == IF Len(s) > 0 /\ CharAt(s, 1) = " " THEN cutspace(Rest(s, 1)) ELSE s

\* the index in tab of the name val starts with, 0 when there is none
lookup(tab, val) ==
    IF \E i \in 1..Len(tab) : HasPrefix(val, tab[i])
    THEN CHOOSE i \in 1..Len(tab) : HasPrefix(val, tab[i])
    ELSE 0

\* a number of one or two digits (of two digits when fixed): [ok, n, rest]
getnum(s, fixed) ==
    IF ~isDigit(s, 0) THEN [ok |-> FALSE, n |-> 0, rest |-> s]
    ELSE IF ~isDigit(s, 1)
         THEN IF fixed THEN [ok |-> FALSE, n |-> 0, rest |-> s]
              ELSE [ok |-> TRUE, n |-> digitAt(s, 0), rest |-> Rest(s, 1)]
         ELSE [ok |-> TRUE, n |-> digitAt(s, 0) * 10 + digitAt(s, 1), rest |-> Rest(s, 2)]

RECURSIVE leadingDigits(_)
\* the number of digits s starts with
leadingDigits(s) == IF isDigit(s, 0) THEN 1 + leadingDigits(Rest(s, 1)) ELSE 0

daysIn(month, year) ==
    IF month = 2
    THEN (IF year % 4 = 0 /\ (year % 100 # 0 \/ year % 400 = 0) THEN 29 ELSE 28)
    ELSE IF month \in {4, 6, 9, 11} THEN 30 ELSE 31

\* the layout element the layout starts with, "" when it starts with a
\* character that stands for itself
nextStdChunk(layout) ==
    CASE HasPrefix(layout, "2006") -> "2006"
      [] HasPrefix(layout, "Jan") -> "Jan"
      [] HasPrefix(layout, "Mon") -> "Mon"
      [] HasPrefix(layout, "_2") -> "_2"
      [] HasPrefix(layout, "-0700") -> "-0700"
      [] HasPrefix(layout, "Z07:00") -> "Z07:00"
      [] HasPrefix(layout, "01") -> "01"
      [] HasPrefix(layout, "02") -> "02"
      [] HasPrefix(layout, "04") -> "04"
      [] HasPrefix(layout, "05") -> "05"
      [] HasPrefix(layout, "15") -> "15"
      [] OTHER -> ""

\* the element does not parse (errBad), or parses to a value out of range
Bad(value, t) == [ok |-> FALSE, rest |-> value, t |-> t, why |-> "cannot parse"]
Got(rest, t) == [ok |-> TRUE, rest |-> rest, t |-> t, why |-> ""]

\* a zone offset written sign, two digits, sep, two digits
zoneOffset(value, sep, t) ==
    LET n == 5 + Len(sep)
        hh == getnum(Rest(value, 1), TRUE)
        mm == getnum(Rest(value, 3 + Len(sep)), TRUE)
    IN  IF \/ Len(value) < n
           \/ CharAt(value, 1) \notin {"+", "-"}
           \/ SubSeq(value, 4, 3 + Len(sep)) # sep
           \/ ~hh.ok \/ ~mm.ok
        THEN Bad(value, t)
        ELSE IF hh.n > 24 THEN [Bad(value, t) EXCEPT !.why = "time zone offset hour" \o " out of range"]
        ELSE IF mm.n > 60 THEN [Bad(value, t) EXCEPT !.why = "time zone offset minute" \o " out of range"]
        ELSE Got(Rest(value, n),
                 [t EXCEPT !.offset = (IF CharAt(value, 1) = "-" THEN 0 - 1 ELSE 1)
                                      * (hh.n * 60 + mm.n)])

\* the value parsed for the layout element std: [ok, rest, t, why]
parseChunk(std, value, t) ==
    CASE std = "2006" ->
            IF Len(value) < 4 \/ leadingDigits(SubSeq(value, 1, 4)) < 4
            THEN Bad(value, t)
            ELSE Got(Rest(value, 4),
                     [t EXCEPT !.year = digitAt(value, 0) * 1000 + digitAt(value, 1) * 100
                                        + digitAt(value, 2) * 10 + digitAt(value, 3)])
      [] std = "Jan" ->
            IF lookup(shortMonthNames, value) = 0 THEN Bad(value, t)
            ELSE Got(Rest(value, 3), [t EXCEPT !.month = lookup(shortMonthNames, value)])
      [] std = "Mon" ->
            IF lookup(shortDayNames, value) = 0 THEN Bad(value, t)
            ELSE Got(Rest(value, 3), t)
      [] std \in {"_2", "02"} ->
            LET v == IF std = "_2" /\ Len(value) > 0 /\ CharAt(value, 1) = " "
                     THEN Rest(value, 1) ELSE value
                g == getnum(v, std = "02")
            IN  IF ~g.ok THEN Bad(value, t) ELSE Got(g.rest, [t EXCEPT !.day = g.n])
      [] std = "01" ->
            LET g == getnum(value, TRUE)
            IN  IF ~g.ok THEN Bad(value, t)
                ELSE IF g.n <= 0 \/ 12 < g.n THEN [Bad(value, t) EXCEPT !.why = "month" \o " out of range"]
                ELSE Got(g.rest, [t EXCEPT !.month = g.n])
      [] std = "15" ->
            LET g == getnum(value, FALSE)
            IN  IF ~g.ok THEN Bad(value, t)
                ELSE IF g.n >= 24 THEN [Bad(value, t) EXCEPT !.why = "hour" \o " out of range"]
                ELSE Got(g.rest, [t EXCEPT !.hour = g.n])
      [] std = "04" ->
            LET g == getnum(value, TRUE)
            IN  IF ~g.ok THEN Bad(value, t)
                ELSE IF g.n >= 60 THEN [Bad(value, t) EXCEPT !.why = "minute" \o " out of range"]
                ELSE Got(g.rest, [t EXCEPT !.min = g.n])
      [] std = "05" ->
            \* a fractional second is read also when the layout names none
            LET g == getnum(value, TRUE)
                n == leadingDigits(Rest(g.rest, 1))
            IN  IF ~g.ok THEN Bad(value, t)
                ELSE IF g.n >= 60 THEN [Bad(value, t) EXCEPT !.why = "second" \o " out of range"]
                ELSE IF Len(g.rest) >= 2 /\ CharAt(g.rest, 1) \in {".", ","} /\ n > 0
                     THEN Got(Rest(g.rest, 1 + n),
                              [t EXCEPT !.sec = g.n, !.frac = SubSeq(g.rest, 2, 1 + n)])
                     ELSE Got(g.rest, [t EXCEPT !.sec = g.n])
      [] std = "-0700" -> zoneOffset(value, "", t)
      [] std = "Z07:00" ->
            IF Len(value) >= 1 /\ CharAt(value, 1) = "Z"
            THEN Got(Rest(value, 1), [t EXCEPT !.offset = 0])
            ELSE zoneOffset(value, ":", t)

RECURSIVE parseFrom(_, _, _)
\* the layout is walked from left to right: [ok, t, err]
parseFrom(layout, value, t) ==
    IF layout = ""
    THEN IF value # "" THEN [ok |-> FALSE, t |-> ZeroTime, err |-> ParseError("extra text")]
         ELSE IF t.day < 1 \/ t.day > daysIn(t.month, t.year)
              THEN [ok |-> FALSE, t |-> ZeroTime, err |-> ParseError("day out of range")]
              ELSE [ok |-> TRUE, t |-> t, err |-> NoError]
    ELSE LET std == nextStdChunk(layout)
             c == parseChunk(std, value, t)
         IN  IF std # ""
             THEN IF c.ok THEN parseFrom(Rest(layout, Len(std)), c.rest, c.t)
                  ELSE [ok |-> FALSE, t |-> ZeroTime, err |-> ParseError(c.why)]
             ELSE IF CharAt(layout, 1) = " "
                  \* a space of the layout stands for any run of spaces
                  THEN IF Len(value) > 0 /\ CharAt(value, 1) # " "
                       THEN [ok |-> FALSE, t |-> ZeroTime, err |-> ParseError("cannot parse")]
                       ELSE parseFrom(cutspace(layout), cutspace(value), t)
                  ELSE IF Len(value) = 0 \/ CharAt(value, 1) # CharAt(layout, 1)
                       THEN [ok |-> FALSE, t |-> ZeroTime, err |-> ParseError("cannot parse")]
                       ELSE parseFrom(Rest(layout, 1), Rest(value, 1), t)

\* time.Parse(layout, value): [ok, t, err]
Parse(layout, value) ==
    parseFrom(layout, value, Time(0, 0 - 1, 0 - 1, 0, 0, 0, "", 0))

\* UnmarshalJSON trying the Git layout alone
UnmarshalJSONGitOnly(c, raw) ==
    IF raw = "\"\"" \/ raw = "null"
    THEN [c |-> c, err |-> NoError]
    ELSE LET g == Parse("\"" \o GitTimeFormat \o "\"", raw)
         IN  IF g.err # NoError THEN [c |-> c, err |-> g.err]
             ELSE [c |-> g.t, err |-> NoError]

\* (*GitTime).UnmarshalJSON: [c, err], c the receiver after the call
UnmarshalJSON(c, raw) ==
    IF raw = "\"\"" \/ raw = "null"
    THEN [c |-> c, err |-> NoError]
    ELSE LET g == Parse("\"" \o GitTimeFormat \o "\"", raw)
             r == Parse("\"" \o RFC3339 \o "\"", raw)
         IN  IF g.err # NoError
             THEN IF r.err # NoError
                  THEN [c |-> c, err |-> r.err]
                  ELSE [c |-> r.t, err |-> NoError]
             ELSE [c |-> g.t, err |-> NoError]

----------------------------------------------------------------------------
(* The inputs of the model *)

\* endpoints a Client is configured with; the last one is no valid URL
Endpoints == {"http://gandalf", "http://gandalf/", "http://gandalf:8000//", ":8000"}

\* the caller's context: one that is never cancelled, one the caller may cancel
Contexts == {"background", "cancellable"}

\* repository, user and key names; the last one cannot be part of a URL
Names == {"proj1", "r&d", "bad\nname"}
ListNames == {"projectx", "projecty"}
KeyTexts == {"ssh-rsa somekey"}
CommitRefs == {"", "1b970b0"}
Refs == {"", "master", "release/1"}
LogPaths == {"", "src/a b"}
Totals == (0 - 1)..MaxTotal
KeyBodies == {"", "ssh-rsa \"otherkey\""}

StringLists == {NilSlice} \cup
    {Slice(s) : s \in UNION {[1..n -> ListNames] : n \in 0..MaxList}}

KeyMaps == {NilMap} \cup
    {Map(f) : f \in UNION {[D -> KeyTexts] : D \in SUBSET {"fookey", "testkey"}}}

\* bodies handed to the verb helpers directly
HelperBodies == {NilValue, StringValue(""), StringValue("some \"text\""),
                 Unmarshable, KeysValue(Map("test" :> "foo")),
                 repository("test", Slice(<<"samwan">>), FALSE, "", "")}
HelperPaths == {"/test"}

\* what a server answers
Statuses == {StatusOK, 201, 404, 500}
Bodies == {"", ErrorBody, "null", RepoBody, KeysBody, MixedBody, LogBody,
           PartialLogBody}

\* the JSON texts the decoder hands to GitTime.UnmarshalJSON
RawTimes == {"\"\"", "null", "\"null\"", "12345", "\"yesterday\"",
             "\"Thu Feb 12 10:30:00 2015 -0300\"",
             "\"Mon Mar  2 09:05:07 2015 +0000\"",
             "\"Thu Feb 12 10:30:00 2015\"",
             "\"2015-02-12T10:30:00-03:00\"",
             "\"2015-02-12T10:30:00Z\"",
             "\"2016-02-29T23:59:59.5+05:30\"",
             "\"2015-02-30T10:30:00Z\"",
             "\"2015-02-12T10:30:00Z \"",
             "\"2015-02-12 10:30:00\""}

\* what the receiver holds before the call
Receivers == {ZeroTime, Time(2014, 7, 1, 8, 0, 0, "", 120)}

PublicOps == {"NewRepository", "GetRepository", "RemoveRepository", "NewUser",
              "RemoveUser", "GrantAccess", "RevokeAccess", "AddKey", "UpdateKey",
              "RemoveKey", "ListKeys", "GetDiff", "GetLog", "GetHealthCheck"}
VerbHelpers == {"post", "put", "delete", "get"}
\* the operations built on get
GetOps == {"GetRepository", "ListKeys", "GetDiff", "GetLog", "GetHealthCheck"}

----------------------------------------------------------------------------
(* One call *)

NoCall == [op |-> "none"]
NoReturn == [returned |-> FALSE, err |-> NoError, value |-> NoValue, panicked |-> FALSE]

\* formatBody called on its own: it returns a buffer and an error
FormatBodyCall(b) ==
    LET f == formatBody(b)
    IN  Returned(NoRequest, f.err, [kind |-> "buffer", buf |-> f.buf])

\* GitTime.UnmarshalJSON called on its own, as the JSON decoder does; it
\* hands nothing to the transport and has returned when the call is made
UnmarshalJSONCall(c, raw) ==
    LET u == UnmarshalJSON(c, raw)
    IN  Returned(NoRequest, u.err, [kind |-> "GitTime", t |-> u.c])

\* the operation of call c, run with the transport's answer o
Run(c, o) ==
    CASE c.op = "NewRepository" ->
            NewRepository(Endpoint, c.ctx, c.name, c.users, c.isPublic, o)
      [] c.op = "GetRepository" -> GetRepository(Endpoint, c.ctx, c.name, o)
      [] c.op = "RemoveRepository" -> RemoveRepository(Endpoint, c.ctx, c.name, o)
      [] c.op = "NewUser" -> NewUser(Endpoint, c.ctx, c.name, c.keys, o)
      [] c.op = "RemoveUser" -> RemoveUser(Endpoint, c.ctx, c.name, o)
      [] c.op = "GrantAccess" -> GrantAccess(Endpoint, c.ctx, c.rNames, c.uNames, o)
      [] c.op = "RevokeAccess" -> RevokeAccess(Endpoint, c.ctx, c.rNames, c.uNames, o)
      [] c.op = "AddKey" -> AddKey(Endpoint, c.ctx, c.uName, c.key, o)
      [] c.op = "UpdateKey" -> UpdateKey(Endpoint, c.ctx, c.uName, c.kName, c.kBody, o)
      [] c.op = "RemoveKey" -> RemoveKey(Endpoint, c.ctx, c.uName, c.kName, o)
      [] c.op = "ListKeys" -> ListKeys(Endpoint, c.ctx, c.uName, o)
      [] c.op = "GetDiff" ->
            GetDiff(Endpoint, c.ctx, c.repo, c.previousCommit, c.lastCommit, o)
      [] c.op = "GetLog" -> GetLog(Endpoint, c.ctx, c.repo, c.ref, c.path, c.total, o)
      [] c.op = "GetHealthCheck" -> GetHealthCheck(Endpoint, c.ctx, o)
      [] c.op = "post" -> post(Endpoint, c.ctx, c.b, c.path, o)
      [] c.op = "put" -> put(Endpoint, c.ctx, c.body, c.path, o)
      [] c.op = "delete" -> delete(Endpoint, c.ctx, c.b, c.path, o)
      [] c.op = "get" -> get(Endpoint, c.ctx, c.path, o)
      [] c.op = "get_client_go" -> get_client_go(Endpoint, c.path, o)
      [] c.op = "formatBody" -> FormatBodyCall(c.b)

ReturnOf(r) ==
    [returned |-> ~r.panicked, err |-> r.err, value |-> r.value, panicked |-> r.panicked]

\* the caller invokes c: the operation runs up to the transport call, or to
\* its return when it issues no request.  r is the operation run with no
\* answer of the transport yet: its request is the one handed to client.Do,
\* and its result is used only when no request was built, in which case the
\* operation has returned before client.Do and the result depends on no answer
Invoke(c, r) ==
        /\ pc = "idle"
        /\ call' = c
        /\ outcome' = NoOutcome
        /\ request' = r.request
        /\ IF r.request.sent
           THEN pc' = "inflight" /\ nreq' = 1 /\ ret' = NoReturn
           ELSE pc' = "done" /\ nreq' = 0 /\ ret' = ReturnOf(r)
        /\ UNCHANGED Endpoint

\* Complete trying the request once more after a transport failure
CompleteRetrying(o) ==
    /\ pc = "inflight"
    /\ outcome' = o
    /\ IF o.kind = "failure" /\ nreq < 2
       THEN pc' = "inflight" /\ nreq' = nreq + 1 /\ ret' = ret
       ELSE pc' = "done" /\ nreq' = nreq /\ ret' = ReturnOf(Run(call, o))
    /\ UNCHANGED <<Endpoint, call, request>>

\* the transport answers o and the operation runs to its end
Complete(o) ==
    /\ pc = "inflight"
    /\ outcome' = o
    /\ ret' = ReturnOf(Run(call, o))
    /\ pc' = "done"
    /\ UNCHANGED <<Endpoint, call, request, nreq>>

----------------------------------------------------------------------------
(* Actions *)

Init ==
    /\ Endpoint \in Endpoints
    /\ pc = "idle"
    /\ call = NoCall
    /\ request = NoRequest
    /\ outcome = NoOutcome
    /\ ret = NoReturn
    /\ nreq = 0

CallNewRepository ==
    /\ pc = "idle"
    /\ \E ctx \in Contexts, name \in Names, users \in StringLists, isPublic \in BOOLEAN :
           Invoke([op |-> "NewRepository", ctx |-> ctx, name |-> name,
                   users |-> users, isPublic |-> isPublic],
                  NewRepository(Endpoint, ctx, name, users, isPublic, NoOutcome))

CallGetRepository ==
    /\ pc = "idle"
    /\ \E ctx \in Contexts, name \in Names :
           Invoke([op |-> "GetRepository", ctx |-> ctx, name |-> name],
                  GetRepository(Endpoint, ctx, name, NoOutcome))

CallRemoveRepository ==
    /\ pc = "idle"
    /\ \E ctx \in Contexts, name \in Names :
           Invoke([op |-> "RemoveRepository", ctx |-> ctx, name |-> name],
                  RemoveRepository(Endpoint, ctx, name, NoOutcome))

CallNewUser ==
    /\ pc = "idle"
    /\ \E ctx \in Contexts, name \in Names, keys \in KeyMaps :
           Invoke([op |-> "NewUser", ctx |-> ctx, name |-> name, keys |-> keys],
                  NewUser(Endpoint, ctx, name, keys, NoOutcome))

CallRemoveUser ==
    /\ pc = "idle"
    /\ \E ctx \in Contexts, name \in Names :
           Invoke([op |-> "RemoveUser", ctx |-> ctx, name |-> name],
                  RemoveUser(Endpoint, ctx, name, NoOutcome))

CallGrantAccess ==
    /\ pc = "idle"
    /\ \E ctx \in Contexts, rNames \in StringLists, uNames \in StringLists :
           Invoke([op |-> "GrantAccess", ctx |-> ctx, rNames |-> rNames, uNames |-> uNames],
                  GrantAccess(Endpoint, ctx, rNames, uNames, NoOutcome))

CallRevokeAccess ==
    /\ pc = "idle"
    /\ \E ctx \in Contexts, rNames \in StringLists, uNames \in StringLists :
           Invoke([op |-> "RevokeAccess", ctx |-> ctx, rNames |-> rNames, uNames |-> uNames],
                  RevokeAccess(Endpoint, ctx, rNames, uNames, NoOutcome))

CallAddKey ==
    /\ pc = "idle"
    /\ \E ctx \in Contexts, uName \in Names, key \in KeyMaps :
           Invoke([op |-> "AddKey", ctx |-> ctx, uName |-> uName, key |-> key],
                  AddKey(Endpoint, ctx, uName, key, NoOutcome))

CallUpdateKey ==
    /\ pc = "idle"
    /\ \E ctx \in Contexts, uName \in Names, kName \in Names, kBody \in KeyBodies :
           Invoke([op |-> "UpdateKey", ctx |-> ctx, uName |-> uName,
                   kName |-> kName, kBody |-> kBody],
                  UpdateKey(Endpoint, ctx, uName, kName, kBody, NoOutcome))

CallRemoveKey ==
    /\ pc = "idle"
    /\ \E ctx \in Contexts, uName \in Names, kName \in Names :
           Invoke([op |-> "RemoveKey", ctx |-> ctx, uName |-> uName, kName |-> kName],
                  RemoveKey(Endpoint, ctx, uName, kName, NoOutcome))

CallListKeys ==
    /\ pc = "idle"
    /\ \E ctx \in Contexts, uName \in Names :
           Invoke([op |-> "ListKeys", ctx |-> ctx, uName |-> uName],
                  ListKeys(Endpoint, ctx, uName, NoOutcome))

CallGetDiff ==
    /\ pc = "idle"
    /\ \E ctx \in Contexts, repo \in Names, prev \in CommitRefs, last \in CommitRefs :
           Invoke([op |-> "GetDiff", ctx |-> ctx, repo |-> repo,
                   previousCommit |-> prev, lastCommit |-> last],
                  GetDiff(Endpoint, ctx, repo, prev, last, NoOutcome))

CallGetLog ==
    /\ pc = "idle"
    /\ \E ctx \in Contexts, repo \in Names, ref \in Refs, path \in LogPaths, total \in Totals :
           Invoke([op |-> "GetLog", ctx |-> ctx, repo |-> repo, ref |-> ref,
                   path |-> path, total |-> total],
                  GetLog(Endpoint, ctx, repo, ref, path, total, NoOutcome))

CallGetHealthCheck ==
    /\ pc = "idle"
    /\ \E ctx \in Contexts : Invoke([op |-> "GetHealthCheck", ctx |-> ctx],
                  GetHealthCheck(Endpoint, ctx, NoOutcome))

\* the verb helpers and formatBody called directly, as the package's tests do
CallPost ==
    /\ pc = "idle"
    /\ \E ctx \in Contexts, b \in HelperBodies, path \in HelperPaths :
           Invoke([op |-> "post", ctx |-> ctx, b |-> b, path |-> path],
                  post(Endpoint, ctx, b, path, NoOutcome))

CallPut ==
    /\ pc = "idle"
    /\ \E ctx \in Contexts, body \in KeyBodies, path \in HelperPaths :
           Invoke([op |-> "put", ctx |-> ctx, body |-> body, path |-> path],
                  put(Endpoint, ctx, body, path, NoOutcome))

CallDelete ==
    /\ pc = "idle"
    /\ \E ctx \in Contexts, b \in HelperBodies, path \in HelperPaths :
           Invoke([op |-> "delete", ctx |-> ctx, b |-> b, path |-> path],
                  delete(Endpoint, ctx, b, path, NoOutcome))

CallGet ==
    /\ pc = "idle"
    /\ \E ctx \in Contexts, path \in HelperPaths :
           Invoke([op |-> "get", ctx |-> ctx, path |-> path],
                  get(Endpoint, ctx, path, NoOutcome))

CallGetClientGo ==
    /\ pc = "idle"
    /\ \E path \in HelperPaths : Invoke([op |-> "get_client_go", path |-> path],
                  get_client_go(Endpoint, path, NoOutcome))

CallFormatBody ==
    /\ pc = "idle"
    /\ \E b \in HelperBodies : Invoke([op |-> "formatBody", b |-> b],
                  FormatBodyCall(b))

CallUnmarshalJSON ==
    /\ pc = "idle"
    /\ \E c \in Receivers, raw \in RawTimes :
           Invoke([op |-> "UnmarshalJSON", c |-> c, raw |-> raw],
                  UnmarshalJSONCall(c, raw))

\* the server's response reaches the client
Respond ==
    /\ pc = "inflight"
    /\ \E status \in Statuses, body \in Bodies, readErr \in BOOLEAN :
           Complete(ResponseOutcome(status, body, readErr))

\* the transport fails: no response exists
TransportFail == Complete(FailureOutcome(ConnectionRefused))

\* the caller cancels the context of the request in flight
Cancel ==
    /\ request.ctx = "cancellable"
    /\ Complete(FailureOutcome(ContextCanceled))

\* the caller is done with the result
Forget ==
    /\ pc = "done"
    /\ pc' = "idle"
    /\ call' = NoCall
    /\ request' = NoRequest
    /\ outcome' = NoOutcome
    /\ ret' = NoReturn
    /\ nreq' = 0
    /\ UNCHANGED Endpoint

Next ==
    \/ CallNewRepository \/ CallGetRepository \/ CallRemoveRepository
    \/ CallNewUser \/ CallRemoveUser \/ CallGrantAccess \/ CallRevokeAccess
    \/ CallAddKey \/ CallUpdateKey \/ CallRemoveKey \/ CallListKeys
    \/ CallGetDiff \/ CallGetLog \/ CallGetHealthCheck
    \/ CallPost \/ CallPut \/ CallDelete \/ CallGet \/ CallGetClientGo
    \/ CallFormatBody \/ CallUnmarshalJSON
    \/ Respond \/ TransportFail \/ Cancel \/ Forget

Spec == Init /\ [][Next]_vars

----------------------------------------------------------------------------
(* Concurrent calls on one Client.  Several goroutines share the Client; in
   this specification pc, call, request, outcome, ret and nreq hold one value
   per caller, and Endpoint is the one field all of them read.  A call reads
   c.Endpoint when it builds its request and again when it words the error of
   a failed client.Do; nothing in the package writes it. *)

Callers == 1..NumCallers

\* the calls the callers choose from
ConcurrentCalls ==
    {[op |-> "NewRepository", ctx |-> "cancellable", name |-> "proj1",
      users |-> Slice(<<"projectx">>), isPublic |-> FALSE],
     [op |-> "GetRepository", ctx |-> "background", name |-> "proj1"],
     [op |-> "UpdateKey", ctx |-> "background", uName |-> "proj1",
      kName |-> "r&d", kBody |-> "ssh-rsa \"otherkey\""]}

\* what the transport answers to a request of a concurrent call
ConcurrentOutcomes ==
    {ResponseOutcome(StatusOK, RepoBody, FALSE),
     ResponseOutcome(404, ErrorBody, FALSE),
     FailureOutcome(ConnectionRefused)}

InitConcurrent ==
    /\ Endpoint \in Endpoints
    /\ pc = [p \in Callers |-> "idle"]
    /\ call = [p \in Callers |-> NoCall]
    /\ request = [p \in Callers |-> NoRequest]
    /\ outcome = [p \in Callers |-> NoOutcome]
    /\ ret = [p \in Callers |-> NoReturn]
    /\ nreq = [p \in Callers |-> 0]

\* Begin writing the trimmed endpoint back into the Client
BeginTrimmingEndpoint(p) ==
    /\ pc[p] = "idle"
    /\ \E c \in ConcurrentCalls :
         LET r == Run(c, NoOutcome)
         IN  /\ call' = [call EXCEPT ![p] =
                            c @@ [overlaps |-> \E q \in Callers : pc[q] = "inflight"]]
             /\ request' = [request EXCEPT ![p] = r.request]
             /\ outcome' = [outcome EXCEPT ![p] = NoOutcome]
             /\ IF r.request.sent
                THEN /\ pc' = [pc EXCEPT ![p] = "inflight"]
                     /\ nreq' = [nreq EXCEPT ![p] = 1]
                     /\ ret' = [ret EXCEPT ![p] = NoReturn]
                ELSE /\ pc' = [pc EXCEPT ![p] = "done"]
                     /\ nreq' = [nreq EXCEPT ![p] = 0]
                     /\ ret' = [ret EXCEPT ![p] = ReturnOf(r)]
    /\ Endpoint' = TrimRight(Endpoint, "/")

\* caller p invokes an operation: it runs up to client.Do, or to its return
\* when it builds no request; "overlaps" records whether another caller's
\* request was in flight at that moment
Begin(p) ==
    /\ pc[p] = "idle"
    /\ \E c \in ConcurrentCalls :
         LET r == Run(c, NoOutcome)
         IN  /\ call' = [call EXCEPT ![p] =
                            c @@ [overlaps |-> \E q \in Callers : pc[q] = "inflight"]]
             /\ request' = [request EXCEPT ![p] = r.request]
             /\ outcome' = [outcome EXCEPT ![p] = NoOutcome]
             /\ IF r.request.sent
                THEN /\ pc' = [pc EXCEPT ![p] = "inflight"]
                     /\ nreq' = [nreq EXCEPT ![p] = 1]
                     /\ ret' = [ret EXCEPT ![p] = NoReturn]
                ELSE /\ pc' = [pc EXCEPT ![p] = "done"]
                     /\ nreq' = [nreq EXCEPT ![p] = 0]
                     /\ ret' = [ret EXCEPT ![p] = ReturnOf(r)]
    /\ UNCHANGED Endpoint

\* the transport answers o to caller p, whose operation runs to its end
End(p, o) ==
    /\ pc[p] = "inflight"
    /\ outcome' = [outcome EXCEPT ![p] = o]
    /\ ret' = [ret EXCEPT ![p] = ReturnOf(Run(call[p], o))]
    /\ pc' = [pc EXCEPT ![p] = "done"]
    /\ UNCHANGED <<Endpoint, call, request, nreq>>

\* caller p cancels the context of its request in flight
CancelCall(p) ==
    /\ request[p].ctx = "cancellable"
    /\ End(p, FailureOutcome(ContextCanceled))

\* caller p is done with its result
Release(p) ==
    /\ pc[p] = "done"
    /\ pc' = [pc EXCEPT ![p] = "idle"]
    /\ call' = [call EXCEPT ![p] = NoCall]
    /\ request' = [request EXCEPT ![p] = NoRequest]
    /\ outcome' = [outcome EXCEPT ![p] = NoOutcome]
    /\ ret' = [ret EXCEPT ![p] = NoReturn]
    /\ nreq' = [nreq EXCEPT ![p] = 0]
    /\ UNCHANGED Endpoint

NextConcurrent ==
    \E p \in Callers :
        \/ Begin(p)
        \/ \E o \in ConcurrentOutcomes : End(p, o)
        \/ CancelCall(p)
        \/ Release(p)

SpecConcurrent == InitConcurrent /\ [][NextConcurrent]_vars

----------------------------------------------------------------------------
(* Properties *)

\* a public operation returned after a response was received
PublicAnswered ==
    pc = "done" /\ call.op \in PublicOps /\ outcome.kind = "response"

DiffPrefix == "Caught error getting repository metadata: "
LogPrefix == "Caught error getting repository log: "

C3_HTTPErrorCarriesTheResponse ==
    (pc = "done" /\ call.op \in PublicOps /\ ret.err.type = "HTTPError") =>
        /\ outcome.kind = "response"
        /\ outcome.status # StatusOK
        /\ ret.err.code = outcome.status
        /\ ret.err.text = outcome.body

\* the result of a call whose transport gave no response holds nothing
EmptyValue(v) ==
    \/ v = NoValue
    \/ v = Bytes("")
    \/ v = Text("")
    \/ v = ZeroRepository
    \/ v = ZeroUser
    \/ v = ZeroLog
    \/ v = MapValue(NilMap)

IsConnectionFailure(e) ==
    \/ HasPrefix(Error(e), "Failed to connect to Gandalf server")
    \/ HasPrefix(Error(e), DiffPrefix \o "Failed to connect to Gandalf server")
    \/ HasPrefix(Error(e), LogPrefix \o "Failed to connect to Gandalf server")

\* C4 as stated: when the transport call fails, every verb helper and every
\* public operation returns (it does not dereference the missing response)
\* a non-nil connection-failure error and an empty result.
C4_TransportFailureIsReturned ==
    (pc = "done" /\ outcome.kind = "failure") =>
        /\ ~ret.panicked
        /\ ret.returned
        /\ ret.err # NoError
        /\ IsConnectionFailure(ret.err)
        /\ EmptyValue(ret.value)

\* the same for the helpers and operations of the current client alone,
\* which all look at the error of doRequest before the response
C4_CurrentClientReturnsTransportFailure ==
    (pc = "done" /\ outcome.kind = "failure" /\ call.op # "get_client_go") =>
        /\ ~ret.panicked
        /\ ret.returned
        /\ ret.err # NoError
        /\ IsConnectionFailure(ret.err)
        /\ EmptyValue(ret.value)

\* the method of the interface table
TableMethod(op) ==
    CASE op \in {"NewRepository", "NewUser", "GrantAccess", "AddKey"} -> "POST"
      [] op \in {"RemoveRepository", "RemoveUser", "RevokeAccess", "RemoveKey"} -> "DELETE"
      [] op = "UpdateKey" -> "PUT"
      [] op \in GetOps -> "GET"

\* the path of the interface table, its placeholders filled from the call
TablePath(c) ==
    CASE c.op = "NewRepository" -> "/repository"
      [] c.op = "GetRepository" -> "/repository/" \o c.name \o "?:name=" \o c.name
      [] c.op = "RemoveRepository" -> "/repository/" \o c.name
      [] c.op = "NewUser" -> "/user"
      [] c.op = "RemoveUser" -> "/user/" \o c.name
      [] c.op = "GrantAccess" -> "/repository/grant"
      [] c.op = "RevokeAccess" -> "/repository/revoke"
      [] c.op = "AddKey" -> "/user/" \o c.uName \o "/key"
      [] c.op = "UpdateKey" -> "/user/" \o c.uName \o "/key/" \o c.kName
      [] c.op = "RemoveKey" -> "/user/" \o c.uName \o "/key/" \o c.kName
      [] c.op = "ListKeys" -> "/user/" \o c.uName \o "/keys"
      [] c.op = "GetDiff" ->
            "/repository/" \o c.repo \o "/diff/commits?:name=" \o c.repo
            \o "&previous_commit=" \o c.previousCommit
            \o "&last_commit=" \o c.lastCommit
      [] c.op = "GetHealthCheck" -> "/healthcheck"

\* the operations C5 lists (GetLog is the subject of C6)
TableOps == PublicOps \ {"GetLog"}

\* C5 as stated: every listed operation issues its request with the method
\* and path of the interface table, the path appended to the configured endpoint.
C5_TablePathAppendedToEndpoint ==
    (request.sent /\ call.op \in TableOps) =>
        /\ request.method = TableMethod(call.op)
        /\ request.url = Endpoint \o TablePath(call)

\* C5 (amended): every listed operation issues its request with the method
\* and path of the interface table, the path appended to the configured
\* endpoint with its trailing '/' characters removed.
C5_TablePathAppendedToTrimmedEndpoint ==
    (request.sent /\ call.op \in TableOps) =>
        /\ request.method = TableMethod(call.op)
        /\ request.url = TrimRight(Endpoint, "/") \o TablePath(call)

\* UpdateKey on an endpoint written with trailing slashes
C5_Witness ==
    /\ request.sent
    /\ call.op = "UpdateKey"
    /\ Endpoint = "http://gandalf:8000//"
    /\ request.method = "PUT"
    /\ request.url = "http://gandalf:8000/user/proj1/key/r&d"

\* the query of a GetLog request whose parameters are written in the order
\* of the given keys, each only when GetLog sets it
RECURSIVE QueryInOrder(_, _, _)
QueryInOrder(order, c, first) ==
    IF order = <<>> THEN ""
    ELSE LET k == Head(order)
             present == \/ k = "ref"
                        \/ k = "path" /\ c.path # ""
                        \/ k = "total" /\ c.total > 0
             val == CASE k = "ref" -> c.ref
                      [] k = "path" -> c.path
                      [] k = "total" -> Itoa(c.total)
         IN  IF present
             THEN (IF first THEN "" ELSE "&") \o k \o "="
                  \o QueryEscape(val)
                  \o QueryInOrder(Tail(order), c, FALSE)
             ELSE QueryInOrder(Tail(order), c, first)

LogURL(c, order) ==
    TrimRight(Endpoint, "/") \o "/repository/" \o c.repo \o "/logs?"
    \o QueryInOrder(order, c, TRUE)

\* C6 as stated: GetLog issues GET on /repository/{repo}/logs with the
\* parameters in the order ref, path, total.
C6_QueryOrderRefPathTotal ==
    (request.sent /\ call.op = "GetLog") =>
        /\ request.method = "GET"
        /\ request.url = LogURL(call, <<"ref", "path", "total">>)

\* C6 (amended): GetLog issues GET on /repository/{repo}/logs with the
\* parameters sorted by name: path (when given), ref, total (when positive).
C6_QueryOrderPathRefTotal ==
    (request.sent /\ call.op = "GetLog") =>
        /\ request.method = "GET"
        /\ request.url = LogURL(call, <<"path", "ref", "total">>)

\* a GetLog request carrying all three parameters
C6_Witness ==
    /\ request.sent
    /\ call.op = "GetLog"
    /\ call.path # "" /\ call.ref # "" /\ call.total = 2
    /\ request.url =
          "http://gandalf/repository/proj1/logs?path=src%2Fa+b&ref=master&total=2"

\* C7: formatBody gives a string back as it is (not JSON-quoted), gives the
\* JSON serialization of any other non-nil value that can be encoded, and
\* gives a nil buffer with the serialization error for a value that cannot.
C7_FormatBody ==
    (pc = "done" /\ call.op = "formatBody") =>
        CASE call.b.kind = "string" ->
                ret.err = NoError /\ ret.value.buf = Reader(call.b.str)
          [] call.b.kind = "unmarshable" ->
                /\ ret.value.buf.isNil
                /\ ret.err = MarshalerError("Unmarshable.")
          [] call.b.kind \in {"keys", "repository"} ->
                /\ ret.err = NoError
                /\ ret.value.buf = Reader(Marshal(call.b).text)
                /\ (call.b = KeysValue(Map("test" :> "foo")) =>
                        ret.value.buf.text = "{\"test\":\"foo\"}")
                /\ (call.b.kind = "repository" =>
                        ret.value.buf.text =
                            "{\"name\":\"test\",\"users\":[\"samwan\"],\"ispublic\":false}")
          [] OTHER -> TRUE

\* formatBody was given a text holding quotes and gave it back unquoted
C7_Witness ==
    /\ pc = "done"
    /\ call.op = "formatBody"
    /\ call.b = StringValue("some \"text\"")
    /\ ret.err = NoError
    /\ ret.value.buf = Reader("some \"text\"")

\* a body value that is absent, or present and empty
AbsentBody(b) ==
    \/ b.kind = "nil"
    \/ b.kind = "keys" /\ b.Keys.isNil
EmptyBody(b) ==
    \/ b.kind = "string" /\ b.str = ""
    \/ b.kind = "keys" /\ ~b.Keys.isNil /\ DOMAIN b.Keys.m = {}

\* the value the call hands to post or delete, for the calls whose value may
\* be absent or empty (any other call hands over a value that is neither)
BodyValue(c) ==
    CASE c.op \in {"post", "delete"} -> c.b
      [] c.op = "AddKey" -> KeysValue(c.key)
      [] c.op \in {"RemoveUser", "RemoveRepository", "RemoveKey"} -> NilValue
      [] OTHER -> Unmarshable

SendsNull == request.hasBody /\ request.body = "null"

\* C8 as stated: post and delete send the body null for a body value that is
\* absent or empty; RemoveUser, RemoveRepository and RemoveKey always send null.
C8_NullForAbsentOrEmpty ==
    request.sent =>
        /\ (AbsentBody(BodyValue(call)) \/ EmptyBody(BodyValue(call))) => SendsNull
        /\ call.op \in {"RemoveUser", "RemoveRepository", "RemoveKey"} => SendsNull

\* C8 (amended): post and delete send the body null for a body value that is
\* absent (nil, or a nil map); an empty text is sent as an empty body and an
\* empty map as {}; RemoveUser, RemoveRepository and RemoveKey always send
\* null, whatever the response.
C8_NullForAbsent ==
    request.sent =>
        /\ AbsentBody(BodyValue(call)) => SendsNull
        /\ (BodyValue(call) = StringValue("")) =>
                request.hasBody /\ request.body = ""
        /\ (BodyValue(call) = KeysValue(Map(<<>>))) =>
                request.hasBody /\ request.body = "{}"
        /\ call.op \in {"RemoveUser", "RemoveRepository", "RemoveKey"} => SendsNull

\* RemoveKey was answered with an error status and had sent null
C8_Witness ==
    /\ pc = "done"
    /\ call.op = "RemoveKey"
    /\ outcome.kind = "response" /\ outcome.status = 404
    /\ ret.err = HTTPError(404, outcome.body)
    /\ request.method = "DELETE"
    /\ SendsNull

\* C9: a request carries Content-Type: application/json if and only if it
\* was given a body; the GET operations give none, the others give one.
C9_ContentTypeIffBody ==
    request.sent =>
        /\ (request.contentType = "application/json") <=> request.hasBody
        /\ request.contentType \in {"", "application/json"}
        /\ request.method = "GET" => ~request.hasBody
        /\ request.method \in {"POST", "PUT", "DELETE"} => request.hasBody

\* UpdateKey with an empty key text: a body is present, though empty
C9_Witness ==
    /\ request.sent
    /\ call.op = "UpdateKey"
    /\ call.kBody = ""
    /\ request.hasBody
    /\ request.contentType = "application/json"

\* the users of a creation request as the claim writes them: a JSON array
RECURSIVE QuotedList(_)
QuotedList(elems) ==
    IF elems = <<>> THEN ""
    ELSE jsonString(Head(elems))
         \o (IF Len(elems) > 1 THEN "," ELSE "") \o QuotedList(Tail(elems))

\* the keys of a creation request: a JSON object, keys in ascending order
QuotedKeys(m) ==
    "{"
    \o (IF "fookey" \in DOMAIN m
        THEN "\"fookey\":" \o jsonString(m["fookey"]) ELSE "")
    \o (IF DOMAIN m = {"fookey", "testkey"} THEN "," ELSE "")
    \o (IF "testkey" \in DOMAIN m
        THEN "\"testkey\":" \o jsonString(m["testkey"]) ELSE "")
    \o "}"

\* C10 as stated: NewRepository sends {"name":..,"users":[..],"ispublic":..}
\* and NewUser sends {"name":..,"keys":{..}}, for every input.
C10_CreationBodies ==
    request.sent =>
        /\ call.op = "NewRepository" =>
              request.body = "{\"name\":" \o jsonString(call.name)
                             \o ",\"users\":[" \o QuotedList(call.users.elems)
                             \o "],\"ispublic\":" \o jsonBool(call.isPublic) \o "}"
        /\ call.op = "NewUser" =>
              request.body = "{\"name\":" \o jsonString(call.name)
                             \o ",\"keys\":" \o QuotedKeys(call.keys.m) \o "}"

\* C10 (amended): NewRepository sends {"name":..,"users":U,"ispublic":..},
\* fields in that order and no others, where U is the array of the users in
\* the given order, or null when the users are a nil slice; NewUser sends
\* {"name":..,"keys":K} where K is the object of the keys, or null when the
\* keys are a nil map.
C10_CreationBodiesNullForNil ==
    request.sent =>
        /\ call.op = "NewRepository" =>
              request.body = "{\"name\":" \o jsonString(call.name)
                             \o ",\"users\":"
                             \o (IF call.users.isNil THEN "null"
                                 ELSE "[" \o QuotedList(call.users.elems) \o "]")
                             \o ",\"ispublic\":" \o jsonBool(call.isPublic) \o "}"
        /\ call.op = "NewUser" =>
              request.body = "{\"name\":" \o jsonString(call.name)
                             \o ",\"keys\":"
                             \o (IF call.keys.isNil THEN "null"
                                 ELSE QuotedKeys(call.keys.m))
                             \o "}"

\* a creation request for two users, in the order given
C10_Witness ==
    /\ request.sent
    /\ call.op = "NewRepository"
    /\ call.users = Slice(<<"projecty", "projectx">>)
    /\ request.body =
          "{\"name\":\"proj1\",\"users\":[\"projecty\",\"projectx\"],\"ispublic\":false}"

\* C11 as stated: GrantAccess and RevokeAccess send
\* {"repositories":[..rNames..],"users":[..uNames..]}, the lists in the
\* caller's order, by POST and DELETE, with Content-Type application/json.
C11_AccessBody ==
    (request.sent /\ call.op \in {"GrantAccess", "RevokeAccess"}) =>
        /\ request.body = "{\"repositories\":[" \o QuotedList(call.rNames.elems)
                          \o "],\"users\":[" \o QuotedList(call.uNames.elems) \o "]}"
        /\ request.method = (IF call.op = "GrantAccess" THEN "POST" ELSE "DELETE")
        /\ request.contentType = "application/json"

\* C11 (amended): GrantAccess and RevokeAccess send
\* {"repositories":R,"users":U}, repositories before users, where R and U are
\* the arrays of the given names in the caller's order, or null for a nil
\* list; GrantAccess by POST, RevokeAccess by DELETE, both with Content-Type
\* application/json.
C11_AccessBodyNullForNil ==
    (request.sent /\ call.op \in {"GrantAccess", "RevokeAccess"}) =>
        /\ request.body =
              "{\"repositories\":"
              \o (IF call.rNames.isNil THEN "null"
                  ELSE "[" \o QuotedList(call.rNames.elems) \o "]")
              \o ",\"users\":"
              \o (IF call.uNames.isNil THEN "null"
                  ELSE "[" \o QuotedList(call.uNames.elems) \o "]")
              \o "}"
        /\ request.method = (IF call.op = "GrantAccess" THEN "POST" ELSE "DELETE")
        /\ request.contentType = "application/json"

\* RevokeAccess for two repositories, given in descending order, and one user
C11_Witness ==
    /\ request.sent
    /\ call.op = "RevokeAccess"
    /\ call.rNames = Slice(<<"projecty", "projectx">>)
    /\ call.uNames = Slice(<<"projectx">>)
    /\ request.method = "DELETE"
    /\ request.contentType = "application/json"
    /\ request.body = "{\"repositories\":[\"projecty\",\"projectx\"],\"users\":[\"projectx\"]}"

\* C12: an invocation hands at most one request to the transport; once the
\* transport has answered (a failure, a status other than 200, a body that
\* cannot be decoded, or a success) the operation returns on that answer, with
\* the same single request on record, and the call ends there: nothing is
\* tried again.
C12_AtMostOneRequest ==
    [][ /\ nreq' <= 1
        /\ nreq' = (IF request'.sent THEN 1 ELSE 0)
        /\ (pc = "inflight" =>
                /\ pc' = "done"
                /\ nreq' = nreq
                /\ request' = request
                /\ call' = call
                /\ (ret'.returned \/ ret'.panicked))
        /\ (pc = "done" => pc' = "idle" /\ nreq' = 0)
      ]_vars

\* GetRepository got a 200 answer it could not decode and returned the
\* decoding error after its one request
C12_Witness ==
    /\ pc = "done"
    /\ call.op = "GetRepository"
    /\ outcome = ResponseOutcome(StatusOK, ErrorBody, FALSE)
    /\ ret.err.type = "errorString"
    /\ HasPrefix(Error(ret.err), "Caught error decoding returned json: ")
    /\ nreq = 1

\* C13: post and delete serialize the body before any network activity: for
\* a value that cannot be encoded the call returns the json.MarshalerError
\* itself and hands no request to the transport, whatever the endpoint is.
C13_SerializationBeforeNetwork ==
    (call.op \in {"post", "delete"} /\ call.b = Unmarshable) =>
        /\ pc = "done"
        /\ ~request.sent
        /\ nreq = 0
        /\ outcome = NoOutcome
        /\ ret.returned
        /\ ret.err = MarshalerError("Unmarshable.")
        /\ Error(ret.err) =
              "json: error calling MarshalJSON for type gandalf.unmarshable: Unmarshable."

\* post was given a value that cannot be encoded, on a client whose endpoint
\* no request can be built for
C13_Witness ==
    /\ pc = "done"
    /\ call.op = "post"
    /\ call.b = Unmarshable
    /\ Endpoint = ":8000"
    /\ ~request.sent
    /\ ret.err.type = "MarshalerError"

DecodeTarget(op) ==
    CASE op = "GetRepository" -> ZeroRepository
      [] op = "ListKeys" -> KeysValue(Map(<<>>))
      [] op = "GetLog" -> ZeroLog

\* a decoding operation got a 200 answer, read it whole, and could not decode it
DecodeFailed ==
    /\ pc = "done"
    /\ call.op \in {"GetRepository", "ListKeys", "GetLog"}
    /\ outcome.kind = "response"
    /\ outcome.status = StatusOK
    /\ ~outcome.readErr
    /\ Unmarshal(outcome.body, DecodeTarget(call.op)).err # NoError

\* C15 as stated: when a 200 body cannot be decoded, GetRepository, ListKeys
\* and GetLog return a non-nil error and a zero/empty result with no decoded
\* field in it; GetRepository's message is "Caught error decoding returned
\* json: " followed by the decoder's message.
C15_DecodeFailureGivesZeroResult ==
    DecodeFailed =>
        /\ ret.err # NoError
        /\ CASE call.op = "GetRepository" ->
                    /\ ret.value = ZeroRepository
                    /\ Error(ret.err) =
                          "Caught error decoding returned json: "
                          \o Error(Unmarshal(outcome.body, ZeroRepository).err)
             [] call.op = "ListKeys" ->
                    ret.value \in {MapValue(NilMap), MapValue(Map(<<>>))}
             [] call.op = "GetLog" -> ret.value = ZeroLog

\* bytes nothing was read into, a text of length 0
EmptyOutput(v) == v \in {Bytes(""), Text("")}

\* the operations that hand the body over as it is
RawOps == {"get", "GetDiff", "GetHealthCheck"}

\* the result that holds the body b: bytes for get and GetHealthCheck, a
\* string for GetDiff
RawResult(op, b) == IF op = "GetDiff" THEN Text(b) ELSE Bytes(b)

\* C16 as stated: on a 200 response get, GetDiff and GetHealthCheck return
\* the body unchanged; on any error each of them returns an empty result.
C16_RawBodyOrEmpty ==
    (pc = "done" /\ call.op \in RawOps) =>
        IF ret.err = NoError
        THEN /\ outcome.kind = "response"
             /\ outcome.status = StatusOK
             /\ ret.value = RawResult(call.op, outcome.body)
        ELSE EmptyOutput(ret.value)

\* C16 (amended): on a 200 response whose body is read to its end get,
\* GetDiff and GetHealthCheck return the body unchanged; on any error GetDiff
\* returns the empty string and GetHealthCheck an empty byte slice; get
\* returns an empty byte slice on a failure of doRequest and on a status other
\* than 200, but when reading the body of a 200 response fails it returns the
\* bytes read so far together with the read error.
C16_RawBodyOrEmptyButPartialRead ==
    (pc = "done" /\ call.op \in RawOps) =>
        IF ret.err = NoError
        THEN /\ outcome.kind = "response"
             /\ outcome.status = StatusOK
             /\ ~outcome.readErr
             /\ ret.value = RawResult(call.op, outcome.body)
        ELSE IF /\ call.op = "get"
                /\ outcome.kind = "response"
                /\ outcome.status = StatusOK
             THEN /\ outcome.readErr
                  /\ ret.err = ReadError
                  /\ ret.value = Bytes(outcome.body)
             ELSE EmptyOutput(ret.value)

\* GetHealthCheck could not read the body of a 200 answer to its end and
\* returned an error with an empty byte slice
C16_Witness ==
    /\ pc = "done"
    /\ call.op = "GetHealthCheck"
    /\ outcome = ResponseOutcome(StatusOK, KeysBody, TRUE)
    /\ ret.err # NoError
    /\ ret.value = Bytes("")

HasSuffix(s, x) == Len(s) >= Len(x) /\ SubSeq(s, Len(s) - Len(x) + 1, Len(s)) = x

\* the operations and helpers that take a context
ContextOps == PublicOps \cup VerbHelpers

\* C17: every operation passes the caller's context to its request; when the
\* caller cancels it while the call is in flight the operation returns an
\* error of the "Failed to connect to Gandalf server" form that carries the
\* cause of the cancellation, with an empty result, and never success.
C17_CancelFailsTheCall ==
    (call.op \in ContextOps) =>
        /\ request.sent => request.ctx = call.ctx
        /\ (pc = "done" /\ outcome = FailureOutcome(ContextCanceled)) =>
              /\ call.ctx = "cancellable"
              /\ ret.returned
              /\ ret.err # NoError
              /\ IsConnectionFailure(ret.err)
              /\ HasSuffix(Error(ret.err), ContextCanceled)
              /\ EmptyValue(ret.value)

\* NewRepository was cancelled in flight
C17_Witness ==
    /\ pc = "done"
    /\ call.op = "NewRepository"
    /\ call.ctx = "cancellable"
    /\ outcome = FailureOutcome(ContextCanceled)
    /\ Endpoint = "http://gandalf/"
    /\ ret.err = ErrorString("Failed to connect to Gandalf server (http://gandalf/) - Post \"http://gandalf/repository\": context canceled")
    /\ ret.value = ZeroRepository

\* what belongs to caller p
CallerState(p) == <<pc[p], call[p], request[p], outcome[p], ret[p], nreq[p]>>

Escaped(t) ==
    CASE t = "src/a b" -> "src%2Fa+b"
      [] t = "release/1" -> "release%2F1"
      [] OTHER -> t

\* C19: the query of GetLog always holds ref (also an empty one), holds path
\* only for a non-empty path and total only for a total above 0; the values
\* are URL-encoded and the repository name is put into the path as it is.
C19_LogQueryParameters ==
    (request.sent /\ call.op = "GetLog") =>
        request.url =
            TrimRight(Endpoint, "/") \o "/repository/" \o call.repo \o "/logs?"
            \o (IF call.path # "" THEN "path=" \o Escaped(call.path) \o "&" ELSE "")
            \o "ref=" \o Escaped(call.ref)
            \o (IF call.total > 0 THEN "&total=" \o Itoa(call.total) ELSE "")

\* GetLog with an empty ref, no path and a total of 0, for a repository
\* whose name holds a character that a query would escape
C19_Witness ==
    /\ request.sent
    /\ call.op = "GetLog"
    /\ call.repo = "r&d" /\ call.ref = "" /\ call.path = "" /\ call.total = 0
    /\ request.url = "http://gandalf/repository/r&d/logs?ref="

\* the times the texts of the model denote, read off by hand
GitInstant == Time(2015, 2, 12, 10, 30, 0, "", 0 - 180)

\* C20: GitTime.UnmarshalJSON stores the time parsed with the Git layout
\* when the text matches it, else the time parsed with the RFC 3339 layout
\* when the text matches that; it returns an error and leaves the receiver as
\* it was only when neither matches; for "" and null it returns no error and
\* leaves the receiver as it was.
C20_GitTimeUnmarshalJSON ==
    (pc = "done" /\ call.op = "UnmarshalJSON") =>
        LET git == Parse("\"" \o GitTimeFormat \o "\"", call.raw)
            rfc == Parse("\"" \o RFC3339 \o "\"", call.raw)
        IN  /\ call.raw \in {"\"\"", "null"} =>
                  ret.err = NoError /\ ret.value.t = call.c
            /\ (call.raw \notin {"\"\"", "null"} /\ git.ok) =>
                  ret.err = NoError /\ ret.value.t = git.t
            /\ (call.raw \notin {"\"\"", "null"} /\ ~git.ok /\ rfc.ok) =>
                  ret.err = NoError /\ ret.value.t = rfc.t
            /\ (ret.err # NoError) <=>
                  (call.raw \notin {"\"\"", "null"} /\ ~git.ok /\ ~rfc.ok)
            /\ ret.err # NoError => ret.value.t = call.c
            /\ call.raw \in {"\"Thu Feb 12 10:30:00 2015 -0300\"",
                             "\"2015-02-12T10:30:00-03:00\""} =>
                  ret.err = NoError /\ ret.value.t = GitInstant
            /\ call.raw = "\"Mon Mar  2 09:05:07 2015 +0000\"" =>
                  ret.value.t = Time(2015, 3, 2, 9, 5, 7, "", 0)
            /\ call.raw = "\"2016-02-29T23:59:59.5+05:30\"" =>
                  ret.value.t = Time(2016, 2, 29, 23, 59, 59, "5", 330)
            /\ call.raw \in {"\"null\"", "12345", "\"yesterday\"",
                             "\"Thu Feb 12 10:30:00 2015\"", "\"2015-02-30T10:30:00Z\"",
                             "\"2015-02-12T10:30:00Z \"", "\"2015-02-12 10:30:00\""} =>
                  ret.err.type = "ParseError"

\* a receiver holding a time was given a text in the RFC 3339 layout, which
\* the Git layout does not match, and holds the time of the text afterwards
C20_Witness ==
    /\ pc = "done"
    /\ call.op = "UnmarshalJSON"
    /\ call.c # ZeroTime
    /\ call.raw = "\"2015-02-12T10:30:00-03:00\""
    /\ ~Parse("\"" \o GitTimeFormat \o "\"", call.raw).ok
    /\ ret.err = NoError
    /\ ret.value.t = GitInstant

\* get, called by GetDiff or GetLog, has returned an error: no request could
\* be built, the transport failed, the status was not 200, or the body of a
\* 200 answer could not be read to its end
GetFailed ==
    \/ ~request.sent
    \/ outcome.kind = "failure"
    \/ outcome.status # StatusOK
    \/ outcome.readErr

\* the message of that error
GetFailureMessage ==
    CASE ~request.sent -> "invalid Gandalf endpoint"
      [] request.sent /\ outcome.kind = "failure" ->
            "Failed to connect to Gandalf server (" \o Endpoint \o ") - Get \""
            \o request.url \o "\": " \o outcome.cause
      [] request.sent /\ outcome.kind = "response" /\ outcome.status # StatusOK ->
            outcome.body
      [] OTHER -> "unexpected EOF"

\* C21: GetDiff and GetLog wrap every error that comes from get: GetDiff
\* returns the message "Caught error getting repository metadata: " followed
\* by the message of get's error and the empty string; GetLog returns
\* "Caught error getting repository log: " followed by it and the zero Log.
C21_DiffAndLogWrapGetErrors ==
    (pc = "done" /\ call.op \in {"GetDiff", "GetLog"} /\ GetFailed) =>
        /\ ret.err.type = "errorString"
        /\ Error(ret.err) =
              (IF call.op = "GetDiff" THEN "Caught error getting repository metadata: "
               ELSE "Caught error getting repository log: ")
              \o GetFailureMessage
        /\ ret.value = (IF call.op = "GetDiff" THEN Text("") ELSE ZeroLog)

\* GetLog on a connection that was refused
C21_Witness ==
    /\ pc = "done"
    /\ call.op = "GetLog"
    /\ call.repo = "proj1" /\ call.ref = "master" /\ call.path = "" /\ call.total = 0
    /\ Endpoint = "http://gandalf/"
    /\ outcome = FailureOutcome(ConnectionRefused)
    /\ Error(ret.err) =
          "Caught error getting repository log: Failed to connect to Gandalf server (http://gandalf/) - Get \"http://gandalf/repository/proj1/logs?ref=master\": dial tcp: connection refused"
    /\ ret.value = ZeroLog

\* the endpoints of the model without their trailing '/' characters, read
\* off by hand
Trimmed(e) ==
    CASE e = "http://gandalf/" -> "http://gandalf"
      [] e = "http://gandalf:8000//" -> "http://gandalf:8000"
      [] OTHER -> e

\* the path the call hands to doRequest
PathOf(c) ==
    CASE c.op \in TableOps -> TablePath(c)
      [] c.op = "GetLog" ->
            "/repository/" \o c.repo \o "/logs?"
            \o QueryInOrder(<<"path", "ref", "total">>, c, TRUE)
      [] c.op \in VerbHelpers -> c.path

\* the call has got as far as doRequest: its body, if any, could be encoded
ReachedDoRequest ==
    /\ pc # "idle"
    /\ call.op \in ContextOps
    /\ ~(call.op \in {"post", "delete"} /\ call.b = Unmarshable)

\* C22: the URL of every request is the Endpoint without its trailing '/'
\* characters, followed by the path of the operation, so that endpoints which
\* differ in trailing slashes only give the same URL; no call changes the
\* Endpoint; and when no request can be built from that URL the call returns
\* the error "invalid Gandalf endpoint" (GetDiff and GetLog behind their
\* prefix) and nothing is handed to the transport.
C22_TrimmedEndpointURL ==
    /\ [](ReachedDoRequest =>
            /\ request.sent => request.url = Trimmed(Endpoint) \o PathOf(call)
            /\ request.sent <=> ~NewRequestFails(Trimmed(Endpoint) \o PathOf(call))
            /\ ~request.sent =>
                  /\ pc = "done"
                  /\ nreq = 0
                  /\ outcome = NoOutcome
                  /\ Error(ret.err) =
                        (CASE call.op = "GetDiff" -> DiffPrefix
                           [] call.op = "GetLog" -> LogPrefix
                           [] OTHER -> "")
                        \o "invalid Gandalf endpoint")
    /\ [][Endpoint' = Endpoint]_vars

\* RemoveUser on an endpoint written with two trailing slashes
C22_Witness ==
    /\ request.sent
    /\ call.op = "RemoveUser"
    /\ call.name = "proj1"
    /\ Endpoint = "http://gandalf:8000//"
    /\ request.url = "http://gandalf:8000/user/proj1"

====
